---- MODULE Spec2Model ----
(***************************************************************************)
(* A model of the scheme-parser interpreter: the reader (lexer.rs), the    *)
(* environment (env.rs), the value model (value.rs), the evaluator         *)
(* (eval.rs) and the read-eval-print loop (main.rs).                       *)
(*                                                                         *)
(* Rc<RefCell<Env>> cells are addresses into `heap`; an Env held by value  *)
(* (main's `env`, a call's `local_env`) is a record.  Env::clone copies    *)
(* the map `vars` and the address `parent`.                                *)
(***************************************************************************)
EXTENDS Integers, Sequences, FiniteSets, TLC

VARIABLES env, heap, result, log, hist, prog, child

vars == <<env, heap, result, log, hist, prog, child>>

(***************************************************************************)
(* Bounds of the model.                                                    *)
(***************************************************************************)
\* number of lines the session reads
MaxForms == 4
\* number of operations of the environment session (SpecEnv)
MaxEnvOps == 4

(***************************************************************************)
(* f64.  A finite number is a normalised fraction n/d (d > 0); the other   *)
(* values are NaN, +inf and -inf.  Rounding, overflow and the sign of zero *)
(* are not modelled.                                                       *)
(***************************************************************************)
RECURSIVE Gcd(_, _)
Gcd(a, b) == IF b = 0 THEN a ELSE Gcd(b, a % b)

Abs(a) == IF a < 0 THEN -a ELSE a

NaN == [k |-> "nan", n |-> 0, d |-> 1]

Inf == [k |-> "inf", n |-> 1, d |-> 1]

NegInf == [k |-> "inf", n |-> -1, d |-> 1]

Frac(n, d) ==
    LET g == Gcd(Abs(n), Abs(d))
        s == IF d < 0 THEN -1 ELSE 1
    IN  [k |-> "fin", n |-> (s * n) \div g, d |-> (s * d) \div g]

F(n) == [k |-> "fin", n |-> n, d |-> 1]

Sign(x) == IF x.n > 0 THEN 1 ELSE IF x.n < 0 THEN -1 ELSE 0

FNeg(x) == IF x.k = "nan" THEN NaN ELSE [x EXCEPT !.n = -(x.n)]

FAdd(x, y) ==
    IF x.k = "nan" \/ y.k = "nan" THEN NaN
    ELSE IF x.k = "inf" /\ y.k = "inf" THEN (IF x.n = y.n THEN x ELSE NaN)
    ELSE IF x.k = "inf" THEN x
    ELSE IF y.k = "inf" THEN y
    ELSE Frac(x.n * y.d + y.n * x.d, x.d * y.d)

FSub(x, y) == FAdd(x, FNeg(y))

FMul(x, y) ==
    IF x.k = "nan" \/ y.k = "nan" THEN NaN
    ELSE IF x.k = "inf" \/ y.k = "inf"
         THEN (IF Sign(x) * Sign(y) = 0 THEN NaN
               ELSE IF Sign(x) * Sign(y) > 0 THEN Inf ELSE NegInf)
    ELSE Frac(x.n * y.n, x.d * y.d)

FDiv(x, y) ==
    IF x.k = "nan" \/ y.k = "nan" THEN NaN
    ELSE IF x.k = "inf" /\ y.k = "inf" THEN NaN
    ELSE IF x.k = "inf" THEN (IF Sign(x) * Sign(y) < 0 THEN NegInf ELSE Inf)
    ELSE IF y.k = "inf" THEN F(0)
    ELSE IF y.n = 0
         THEN (IF x.n = 0 THEN NaN ELSE IF x.n > 0 THEN Inf ELSE NegInf)
    ELSE Frac(x.n * y.d, x.d * y.n)

FEq(x, y) == x.k # "nan" /\ y.k # "nan" /\ x = y

FLt(x, y) ==
    /\ x.k # "nan"
    /\ y.k # "nan"
    /\ IF x.k = "inf" THEN x.n < 0 /\ x # y
       ELSE IF y.k = "inf" THEN y.n > 0
       ELSE x.n * y.d < y.n * x.d

FLe(x, y) == FLt(x, y) \/ FEq(x, y)

FGt(x, y) == FLt(y, x)

FGe(x, y) == FLt(y, x) \/ FEq(x, y)

FNe(x, y) == ~FEq(x, y)

RECURSIVE FSum(_)
FSum(s) == IF s = <<>> THEN F(0) ELSE FAdd(s[1], FSum(Tail(s)))

RECURSIVE FProduct(_)
FProduct(s) == IF s = <<>> THEN F(1) ELSE FMul(s[1], FProduct(Tail(s)))

(***************************************************************************)
(* ast.rs: Expr.                                                           *)
(***************************************************************************)
Symbol(s) == [t |-> "sym", s |-> s]

NumberE(n) == [t |-> "num", n |-> n]

List(l) == [t |-> "list", l |-> l]

(***************************************************************************)
(* value.rs: Value, and eval.rs: EvalError.  A panic of the process is the *)
(* outcome Panic.                                                          *)
(***************************************************************************)
Number(n) == [t |-> "number", n |-> n]

Bool(b) == [t |-> "bool", b |-> b]

Nil == [t |-> "nil"]

BuiltinFunction(name) == [t |-> "builtin", name |-> name]

\* name: <<>> is None, <<s>> is Some(s); env: the address of the Rc cell
Function(params, body, e, name) ==
    [t |-> "function", params |-> params, body |-> body, env |-> e, name |-> name]

UnboundSymbol(s) == [t |-> "err", kind |-> "UnboundSymbol", s |-> s]

InvalidSyntax(expr, desc) ==
    [t |-> "err", kind |-> "InvalidSyntax", expr |-> expr, desc |-> desc]

TypeError(expected, found, in_expr) ==
    [t |-> "err", kind |-> "TypeError", expected |-> expected,
     found |-> found, in_expr |-> in_expr]

ArityMismatch(expected, found, in_expr) ==
    [t |-> "err", kind |-> "ArityMismatch", expected |-> expected,
     found |-> found, in_expr |-> in_expr]

Panic(msg) == [t |-> "panic", msg |-> msg]

\* Option::None
None == [t |-> "none"]

\* an Err(..) that `?` propagates, or a panic that unwinds
Abrupt(v) == v.t \in {"err", "panic"}

(***************************************************************************)
(* env.rs: the builtin procedures installed by Env::define_builtin.  A     *)
(* builtin's `func` is the fn pointer of its name; Builtin(name, args,     *)
(* expr) is the call f(args, expr) of eval.rs:241.                         *)
(***************************************************************************)
IsNumber(v) == v.t = "number"

\* the first argument that is no Value::Number, as the iterator's first Err
RECURSIVE FirstNonNumber(_)
FirstNonNumber(args) ==
    IF args = <<>> THEN None
    ELSE IF ~IsNumber(args[1]) THEN args[1]
    ELSE FirstNonNumber(Tail(args))

Floats(args) == [i \in 1..Len(args) |-> args[i].n]

BuiltinAdd(args, expr) ==
    IF FirstNonNumber(args) # None
    THEN TypeError("Number", FirstNonNumber(args), expr)
    ELSE Number(FSum(Floats(args)))

BuiltinSub(args, expr) ==
    IF Len(args) = 1
    THEN (IF IsNumber(args[1]) THEN Number(FNeg(args[1].n))
          ELSE TypeError("Number", args[1], expr))
    ELSE IF Len(args) = 0 THEN Panic("index out of bounds")
    ELSE IF ~IsNumber(args[1]) THEN TypeError("Number", args[1], expr)
    ELSE IF FirstNonNumber(Tail(args)) # None
         THEN TypeError("Number", FirstNonNumber(Tail(args)), expr)
    ELSE Number(FSub(args[1].n, FSum(Floats(Tail(args)))))

BuiltinMul(args, expr) ==
    IF Len(args) < 2 THEN InvalidSyntax(expr, "Expected at least 2 arguments")
    ELSE IF FirstNonNumber(args) # None
         THEN TypeError("Number", FirstNonNumber(args), expr)
    ELSE Number(FProduct(Floats(args)))

BuiltinDiv(args, expr) ==
    IF Len(args) = 1
    THEN (IF IsNumber(args[1]) THEN Number(FDiv(F(1), args[1].n))
          ELSE TypeError("Number", args[1], expr))
    ELSE IF Len(args) = 0 THEN Panic("index out of bounds")
    ELSE IF ~IsNumber(args[1]) THEN TypeError("Number", args[1], expr)
    ELSE IF FirstNonNumber(Tail(args)) # None
         THEN TypeError("Number", FirstNonNumber(Tail(args)), expr)
    ELSE Number(FDiv(args[1].n, FProduct(Floats(Tail(args)))))

\* the check every comparison builtin makes before it compares
CompareArgs(args, expr) ==
    IF Len(args) # 2 THEN InvalidSyntax(expr, "Expected 2 arguments")
    ELSE IF ~IsNumber(args[1]) THEN TypeError("Number", args[1], expr)
    ELSE IF ~IsNumber(args[2]) THEN TypeError("Number", args[2], expr)
    ELSE None

BuiltinLt(args, expr) ==
    IF CompareArgs(args, expr) # None THEN CompareArgs(args, expr)
    ELSE Bool(FLt(args[1].n, args[2].n))

\* `<=` computed as the negation of `>`
BuiltinLeNotGt(args, expr) ==
    IF CompareArgs(args, expr) # None THEN CompareArgs(args, expr)
    ELSE Bool(~FGt(args[1].n, args[2].n))

BuiltinLe(args, expr) ==
    IF CompareArgs(args, expr) # None THEN CompareArgs(args, expr)
    ELSE Bool(FLe(args[1].n, args[2].n))

BuiltinGt(args, expr) ==
    IF CompareArgs(args, expr) # None THEN CompareArgs(args, expr)
    ELSE Bool(FGt(args[1].n, args[2].n))

BuiltinGe(args, expr) ==
    IF CompareArgs(args, expr) # None THEN CompareArgs(args, expr)
    ELSE Bool(FGe(args[1].n, args[2].n))

BuiltinEq(args, expr) ==
    IF CompareArgs(args, expr) # None THEN CompareArgs(args, expr)
    ELSE Bool(FEq(args[1].n, args[2].n))

BuiltinNe(args, expr) ==
    IF CompareArgs(args, expr) # None THEN CompareArgs(args, expr)
    ELSE Bool(FNe(args[1].n, args[2].n))

BuiltinNames == {"+", "-", "*", "/", "<", "<=", ">", ">=", "=", "!="}

Builtin(name, args, expr) ==
    CASE name = "+" -> BuiltinAdd(args, expr)
      [] name = "-" -> BuiltinSub(args, expr)
      [] name = "*" -> BuiltinMul(args, expr)
      [] name = "/" -> BuiltinDiv(args, expr)
      [] name = "<" -> BuiltinLt(args, expr)
      [] name = "<=" -> BuiltinLe(args, expr)
      [] name = ">" -> BuiltinGt(args, expr)
      [] name = ">=" -> BuiltinGe(args, expr)
      [] name = "=" -> BuiltinEq(args, expr)
      [] name = "!=" -> BuiltinNe(args, expr)

(***************************************************************************)
(* env.rs: Env.  vars is a function from the bound names to their values;  *)
(* parent is the address of an Rc cell of `heap`, or 0 for None.           *)
(***************************************************************************)
Insert(m, name, value) == (name :> value) @@ m

define(e, name, value) == [e EXCEPT !.vars = Insert(@, name, value)]

define_builtin(e) ==
    [e EXCEPT !.vars = [n \in BuiltinNames |-> BuiltinFunction(n)] @@ @]

new == define_builtin([vars |-> <<>>, parent |-> 0])

RECURSIVE get(_, _, _)
get(e, name, h) ==
    IF name \in DOMAIN e.vars THEN e.vars[name]
    ELSE IF e.parent # 0 THEN get(h[e.parent], name, h)
    ELSE None

\* Rc::new(RefCell::new(e)): the heap with the new cell, whose address is
\* Len(h) + 1
Alloc(h, e) == Append(h, e)

\* new_child(&self): the child, and the heap holding the cell of its parent
new_child(e, h) ==
    [child |-> [vars |-> <<>>, parent |-> Len(h) + 1], heap |-> Alloc(h, e)]

(***************************************************************************)
(* lexer.rs: parse.  A line is the sequence of its tokens (tokenize splits *)
(* the input at white space, with every parenthesis a token of its own).   *)
(* token.parse::<f64>() succeeds on the numerals only; every other atom,   *)
(* `true` and `false` included, is a Symbol.                               *)
(***************************************************************************)
Numerals ==
    [tok \in {"0", "1", "2", "3", "4", "5", "6", "10", "NaN", "inf"} |->
        CASE tok = "0" -> F(0)
          [] tok = "1" -> F(1)
          [] tok = "2" -> F(2)
          [] tok = "3" -> F(3)
          [] tok = "4" -> F(4)
          [] tok = "5" -> F(5)
          [] tok = "6" -> F(6)
          [] tok = "10" -> F(10)
          [] tok = "NaN" -> NaN
          [] tok = "inf" -> Inf]

Atom(token) ==
    IF token \in DOMAIN Numerals THEN NumberE(Numerals[token]) ELSE Symbol(token)

RECURSIVE parse(_), ParseList(_, _)
\* the expression read, and the tokens left in the vector
parse(tokens) ==
    IF tokens = <<>> THEN [expr |-> Panic("Unexpected EOF"), rest |-> tokens]
    ELSE IF tokens[1] = "(" THEN ParseList(Tail(tokens), <<>>)
    ELSE IF tokens[1] = ")" THEN [expr |-> Panic("Unexpected ')'"), rest |-> Tail(tokens)]
    ELSE [expr |-> Atom(tokens[1]), rest |-> Tail(tokens)]

\* the loop `while tokens[0] != ")"`
ParseList(tokens, list) ==
    IF tokens = <<>> THEN [expr |-> Panic("index out of bounds"), rest |-> tokens]
    ELSE IF tokens[1] = ")" THEN [expr |-> List(list), rest |-> Tail(tokens)]
    ELSE LET r == parse(tokens)
         IN  IF r.expr.t = "panic" THEN r
             ELSE ParseList(r.rest, Append(list, r.expr))

(***************************************************************************)
(* eval.rs: eval.  An evaluation runs in a state s: the environment it is  *)
(* given (s.env), the heap (s.heap) and the expressions eval was called on *)
(* so far (s.log).  It returns its result (a Value, an EvalError or a      *)
(* panic) in res, with the environment as it leaves it, the heap and the   *)
(* log.                                                                    *)
(***************************************************************************)
St(e, h, l) == [env |-> e, heap |-> h, log |-> l]

Ret(s, res) == [res |-> res, env |-> s.env, heap |-> s.heap, log |-> s.log]

AllSymbols(l) == \A i \in 1..Len(l) : l[i].t = "sym"

Names(l) == [i \in 1..Len(l) |-> l[i].s]

IsForm(expr, s) ==
    /\ expr.t = "list"
    /\ Len(expr.l) > 0
    /\ expr.l[1] = Symbol(s)

\* for (name, val) in params.iter().zip(args) { local_env.define(name, val) }
RECURSIVE BindParams(_, _, _)
BindParams(e, params, args) ==
    IF params = <<>> \/ args = <<>> THEN e
    ELSE BindParams(define(e, params[1], args[1]), Tail(params), Tail(args))

RECURSIVE eval(_, _), EvalSeq(_, _, _), AndLoop(_, _, _), OrLoop(_, _, _),
          CondLoop(_, _, _)

\* list[1..].iter().map(|arg| eval(arg, env)).collect::<Result<..>>()?:
\* the values after vals, or the first abrupt result in res (None when
\* there is none)
EvalSeq(exprs, vals, s) ==
    IF exprs = <<>>
    THEN [vals |-> vals, res |-> None, env |-> s.env, heap |-> s.heap, log |-> s.log]
    ELSE LET r == eval(exprs[1], s)
         IN  IF Abrupt(r.res)
             THEN [vals |-> vals, res |-> r.res, env |-> r.env, heap |-> r.heap,
                   log |-> r.log]
             ELSE EvalSeq(Tail(exprs), Append(vals, r.res), r)

\* DefineValue with the name bound in the environment as it was before
\* list[2] was evaluated
DefineValueOuter(expr, s) ==
    LET r == eval(expr.l[3], s)
    IN  IF Abrupt(r.res) THEN r
        ELSE [r EXCEPT !.env = define(s.env, expr.l[2].s, r.res)]

\* Expr::Symbol(name) => { let val = eval(&list[2], env)?; env.define(..) }
DefineValue(expr, s) ==
    LET r == eval(expr.l[3], s)
    IN  IF Abrupt(r.res) THEN r
        ELSE [r EXCEPT !.env = define(@, expr.l[2].s, r.res)]

\* DefineFunction without the insertion of the name into the captured
\* environment (eval.rs:53)
DefineFunctionNoSelf(expr, s) ==
    LET fn_decl == expr.l[2].l
        name    == fn_decl[1].s
        func_env == Len(s.heap) + 1
        val     == Function(Names(Tail(fn_decl)), expr.l[3], func_env, <<name>>)
    IN  IF fn_decl = <<>> \/ fn_decl[1].t # "sym"
        THEN Ret(s, InvalidSyntax(expr, "Function name must be a symbol."))
        ELSE IF ~AllSymbols(Tail(fn_decl))
        THEN Ret(s, InvalidSyntax(expr, "Function parameters must be symbols."))
        ELSE [res |-> val, env |-> define(s.env, name, val),
              heap |-> Alloc(s.heap, s.env), log |-> s.log]

\* Expr::List(fn_decl) => the named function
DefineFunction(expr, s) ==
    LET fn_decl == expr.l[2].l
        name    == fn_decl[1].s
        func_env == Len(s.heap) + 1
        val     == Function(Names(Tail(fn_decl)), expr.l[3], func_env, <<name>>)
    IN  IF fn_decl = <<>> \/ fn_decl[1].t # "sym"
        THEN Ret(s, InvalidSyntax(expr, "Function name must be a symbol."))
        ELSE IF ~AllSymbols(Tail(fn_decl))
        THEN Ret(s, InvalidSyntax(expr, "Function parameters must be symbols."))
        ELSE [res |-> val, env |-> define(s.env, name, val),
              heap |-> Alloc(s.heap, define(s.env, name, val)), log |-> s.log]

EvalDefine(expr, s) ==
    IF Len(expr.l) # 3
    THEN Ret(s, InvalidSyntax(expr, "define requires 2 arguments."))
    ELSE IF expr.l[2].t = "sym" THEN DefineValue(expr, s)
    ELSE IF expr.l[2].t = "list" THEN DefineFunction(expr, s)
    ELSE Ret(s, InvalidSyntax(expr, "define requires a symbol or a list"))

\* EvalLambda capturing a fresh global environment instead of the current one
EvalLambdaGlobal(expr, s) ==
    IF Len(expr.l) # 3
    THEN Ret(s, InvalidSyntax(expr, "lambda requires 2 arguments"))
    ELSE IF expr.l[2].t # "list"
    THEN Ret(s, InvalidSyntax(expr, "lambda parameters must be a list"))
    ELSE IF ~AllSymbols(expr.l[2].l)
    THEN Ret(s, InvalidSyntax(expr, "lambda parameters must be symbols"))
    ELSE [res |-> Function(Names(expr.l[2].l), expr.l[3], Len(s.heap) + 1, <<>>),
          env |-> s.env, heap |-> Alloc(s.heap, new), log |-> s.log]

EvalLambda(expr, s) ==
    IF Len(expr.l) # 3
    THEN Ret(s, InvalidSyntax(expr, "lambda requires 2 arguments"))
    ELSE IF expr.l[2].t # "list"
    THEN Ret(s, InvalidSyntax(expr, "lambda parameters must be a list"))
    ELSE IF ~AllSymbols(expr.l[2].l)
    THEN Ret(s, InvalidSyntax(expr, "lambda parameters must be symbols"))
    ELSE [res |-> Function(Names(expr.l[2].l), expr.l[3], Len(s.heap) + 1, <<>>),
          env |-> s.env, heap |-> Alloc(s.heap, s.env), log |-> s.log]

\* for arg in &list[1..] of `and`
AndLoop(expr, args, s) ==
    IF args = <<>> THEN Ret(s, Bool(TRUE))
    ELSE LET r == eval(args[1], s)
         IN  CASE Abrupt(r.res) -> r
               [] r.res = Bool(TRUE) -> AndLoop(expr, Tail(args), r)
               [] r.res = Bool(FALSE) -> r
               [] OTHER -> Ret(r, InvalidSyntax(expr, "and requires boolean arguments"))

EvalAnd(expr, s) ==
    IF Len(expr.l) < 3
    THEN Ret(s, InvalidSyntax(expr, "and requires at least 2 arguments"))
    ELSE AndLoop(expr, Tail(expr.l), s)

\* for arg in &list[1..] of `or`
OrLoop(expr, args, s) ==
    IF args = <<>> THEN Ret(s, Bool(FALSE))
    ELSE LET r == eval(args[1], s)
         IN  CASE Abrupt(r.res) -> r
               [] r.res = Bool(TRUE) -> r
               [] r.res = Bool(FALSE) -> OrLoop(expr, Tail(args), r)
               [] OTHER -> Ret(r, InvalidSyntax(expr, "or requires boolean arguments"))

EvalOr(expr, s) ==
    IF Len(expr.l) < 3
    THEN Ret(s, InvalidSyntax(expr, "or requires at least 2 arguments"))
    ELSE OrLoop(expr, Tail(expr.l), s)

EvalNot(expr, s) ==
    IF Len(expr.l) # 2
    THEN Ret(s, InvalidSyntax(expr, "not requires 1 argument"))
    ELSE LET r == eval(expr.l[2], s)
         IN  CASE Abrupt(r.res) -> r
               [] r.res.t = "bool" -> Ret(r, Bool(~r.res.b))
               [] OTHER -> Ret(r, InvalidSyntax(expr, "not requires a boolean argument"))

\* EvalIf as an application would do it: both branches evaluated, then
\* one chosen
EvalIfEager(expr, s) ==
    LET c == eval(expr.l[2], s)
        t == eval(expr.l[3], c)
        f == eval(expr.l[4], t)
    IN  CASE Len(expr.l) # 4 -> Ret(s, InvalidSyntax(expr, "if requires 3 arguments"))
          [] Abrupt(c.res) -> c
          [] c.res.t # "bool" ->
                Ret(c, InvalidSyntax(expr, "if condition must be a boolean"))
          [] Abrupt(t.res) -> t
          [] Abrupt(f.res) -> f
          [] OTHER -> Ret(f, IF c.res.b THEN t.res ELSE f.res)

\* if: let cond = eval(&list[1], env)?; match cond { Bool(true) =>
\* eval(&list[2], env), Bool(false) => eval(&list[3], env), _ => Err }
EvalIf(expr, s) ==
    LET c == eval(expr.l[2], s)
    IN  CASE Len(expr.l) # 4 -> Ret(s, InvalidSyntax(expr, "if requires 3 arguments"))
          [] Abrupt(c.res) -> c
          [] c.res = Bool(TRUE) -> eval(expr.l[3], c)
          [] c.res = Bool(FALSE) -> eval(expr.l[4], c)
          [] OTHER -> Ret(c, InvalidSyntax(expr, "if condition must be a boolean"))

\* one clause (test, val) of `cond` whose test is not `else`: the result
\* when the clause returns, None in res when the loop goes on
CondClause(pair, s) ==
    LET c == eval(pair.l[1], s)
    IN  CASE Abrupt(c.res) -> c
          [] c.res.t # "bool" -> Ret(c, TypeError("bool", c.res, pair.l[1]))
          [] c.res.b -> eval(pair.l[2], c)
          [] OTHER -> Ret(c, None)

\* CondLoop with `else` evaluated as any other test
CondLoopNoElse(expr, pairs, s) ==
    IF pairs = <<>>
    THEN Ret(s, InvalidSyntax(expr, "cond requires at least one else clause"))
    ELSE IF pairs[1].t # "list" \/ Len(pairs[1].l) # 2
    THEN Ret(s, InvalidSyntax(expr, "cond requires a list of pairs"))
    ELSE LET c == CondClause(pairs[1], s)
         IN  IF c.res # None THEN c ELSE CondLoop(expr, Tail(pairs), c)

\* for pair in &list[1..] of `cond`
CondLoop(expr, pairs, s) ==
    IF pairs = <<>>
    THEN Ret(s, InvalidSyntax(expr, "cond requires at least one else clause"))
    ELSE IF pairs[1].t # "list" \/ Len(pairs[1].l) # 2
    THEN Ret(s, InvalidSyntax(expr, "cond requires a list of pairs"))
    ELSE IF pairs[1].l[1] = Symbol("else") THEN eval(pairs[1].l[2], s)
    ELSE LET c == CondClause(pairs[1], s)
         IN  IF c.res # None THEN c ELSE CondLoop(expr, Tail(pairs), c)

EvalCond(expr, s) ==
    IF Len(expr.l) < 3
    THEN Ret(s, InvalidSyntax(expr, "cond requires at least 2 arguments"))
    ELSE CondLoop(expr, Tail(expr.l), s)

\* CallFunction without the comparison of params.len() with args.len()
CallFunctionUnchecked(func, args, expr, s) ==
    [eval(func.body,
          St(BindParams(s.heap[func.env], func.params, args), s.heap, s.log))
     EXCEPT !.env = s.env]

\* CallFunction with the parameters and the body's defines bound in the
\* captured environment itself, not in a copy of it
CallFunctionShared(func, args, expr, s) ==
    IF Len(func.params) # Len(args)
    THEN Ret(s, ArityMismatch(Len(func.params), Len(args), expr))
    ELSE LET r == eval(func.body,
                       St(BindParams(s.heap[func.env], func.params, args),
                          s.heap, s.log))
         IN  [r EXCEPT !.env = s.env, !.heap = [r.heap EXCEPT ![func.env] = r.env]]

\* CallFunction with the body evaluated in the caller's environment instead
\* of a copy of the captured one (dynamic scope)
CallFunctionInCaller(func, args, expr, s) ==
    IF Len(func.params) # Len(args)
    THEN Ret(s, ArityMismatch(Len(func.params), Len(args), expr))
    ELSE eval(func.body, St(BindParams(s.env, func.params, args), s.heap, s.log))

\* Value::Function(UserFunction { params, body, env: func_env, .. }) => ..
\* s.env is the caller's environment, which the call leaves as it is
CallFunction(func, args, expr, s) ==
    IF Len(func.params) # Len(args)
    THEN Ret(s, ArityMismatch(Len(func.params), Len(args), expr))
    ELSE [eval(func.body,
               St(BindParams(s.heap[func.env], func.params, args), s.heap, s.log))
          EXCEPT !.env = s.env]

\* func_expr => the application: match func { BuiltinFunction => f(args,
\* expr), Function => .., _ => TypeError }
EvalApply(expr, s) ==
    LET f == eval(expr.l[1], s)
        a == EvalSeq(Tail(expr.l), <<>>, f)
    IN  CASE Abrupt(f.res) -> f
          [] a.res # None -> Ret(a, a.res)
          [] f.res.t = "builtin" -> Ret(a, Builtin(f.res.name, a.vals, expr))
          [] f.res.t = "function" -> CallFunction(f.res, a.vals, expr, a)
          [] OTHER -> Ret(a, TypeError("function", f.res, expr.l[1]))

EvalSymbol(expr, s) ==
    IF get(s.env, expr.s, s.heap) = None THEN Ret(s, UnboundSymbol(expr.s))
    ELSE Ret(s, get(s.env, expr.s, s.heap))

\* match expr, and match &list[0]: the special forms, then the application
eval(expr, s0) ==
    LET s == St(s0.env, s0.heap, Append(s0.log, expr))
    IN  CASE expr.t = "num" -> Ret(s, Number(expr.n))
          [] expr.t = "sym" -> EvalSymbol(expr, s)
          [] expr.t = "list" /\ expr.l = <<>> -> Ret(s, Nil)
          [] IsForm(expr, "define") -> EvalDefine(expr, s)
          [] IsForm(expr, "lambda") -> EvalLambda(expr, s)
          [] IsForm(expr, "and") -> EvalAnd(expr, s)
          [] IsForm(expr, "or") -> EvalOr(expr, s)
          [] IsForm(expr, "not") -> EvalNot(expr, s)
          [] IsForm(expr, "if") -> EvalIf(expr, s)
          [] IsForm(expr, "cond") -> EvalCond(expr, s)
          [] OTHER -> EvalApply(expr, s)

(***************************************************************************)
(* main.rs: the lines a session may read.  A session draws its lines, in   *)
(* any order and with repetition, from one of the programs below.          *)
(***************************************************************************)
\* a function whose body defines a local name
\* (define (f x) (define y 1) (+ x y))
LineDefFBody2 ==
    <<"(", "define", "(", "f", "x", ")", "(", "define", "y", "1", ")", "(",
      "+", "x", "y", ")", ")">>

\* (define (f x) (+ x (define y 1)))
LineDefF ==
    <<"(", "define", "(", "f", "x", ")", "(", "+", "x", "(", "define", "y",
      "1", ")", ")", ")">>

\* (f 5)
LineF5 ==
    <<"(", "f", "5", ")">>

\* y
LineY ==
    <<"y">>

\* (define y 10)
LineDefY ==
    <<"(", "define", "y", "10", ")">>

ProgScoping ==
    {LineDefFBody2, LineDefF, LineF5, LineY, LineDefY}

\* a function that returns a closure over its parameter
\* (define (make-adder n) (lambda (x) (+ x n)))
LineDefMakeAdder ==
    <<"(", "define", "(", "make-adder", "n", ")", "(", "lambda", "(", "x",
      ")", "(", "+", "x", "n", ")", ")", ")">>

\* (define add5 (make-adder 5))
LineDefAdd5 ==
    <<"(", "define", "add5", "(", "make-adder", "5", ")", ")">>

\* (define add3 (make-adder 3))
LineDefAdd3 ==
    <<"(", "define", "add3", "(", "make-adder", "3", ")", ")">>

\* (add5 10)
LineAdd5Of10 ==
    <<"(", "add5", "10", ")">>

\* (add5 2)
LineAdd5Of2 ==
    <<"(", "add5", "2", ")">>

\* (define n 1)
LineDefN ==
    <<"(", "define", "n", "1", ")">>

ProgAdder ==
    {LineDefMakeAdder, LineDefAdd5, LineDefAdd3, LineAdd5Of10, LineAdd5Of2, LineDefN}

\* a recursive function, a second name for it, and a rebinding of its name
\* (define (fact n) (if (<= n 1) 1 (* n (fact (- n 1)))))
LineDefFact ==
    <<"(", "define", "(", "fact", "n", ")", "(", "if", "(", "<=", "n", "1",
      ")", "1", "(", "*", "n", "(", "fact", "(", "-", "n", "1", ")", ")",
      ")", ")", ")">>

\* (fact 5)
LineFact5 ==
    <<"(", "fact", "5", ")">>

\* (define g fact)
LineDefG ==
    <<"(", "define", "g", "fact", ")">>

\* (define (fact n) 0)
LineRedefFact ==
    <<"(", "define", "(", "fact", "n", ")", "0", ")">>

\* (g 5)
LineG5 ==
    <<"(", "g", "5", ")">>

ProgFact ==
    {LineDefFact, LineFact5, LineDefG, LineRedefFact, LineG5}

\* a function that calls a function defined after it
\* (define (f) (g))
LineDefCaller ==
    <<"(", "define", "(", "f", ")", "(", "g", ")", ")">>

\* (define (g) 1)
LineDefCallee ==
    <<"(", "define", "(", "g", ")", "1", ")">>

\* (f)
LineCallF ==
    <<"(", "f", ")">>

\* (define g 2)
LineDefX2 ==
    <<"(", "define", "g", "2", ")">>

ProgLink ==
    {LineDefCaller, LineDefCallee, LineCallF, LineDefX2}

\* and, or: operands after the deciding one
\* (and false undefined-symbol)
LineAndFalse ==
    <<"(", "and", "false", "undefined-symbol", ")">>

\* (or true undefined-symbol)
LineOrTrue ==
    <<"(", "or", "true", "undefined-symbol", ")">>

\* (define false (< 2 1))
LineDefFalse ==
    <<"(", "define", "false", "(", "<", "2", "1", ")", ")">>

\* (define true (< 1 2))
LineDefTrue ==
    <<"(", "define", "true", "(", "<", "1", "2", ")", ")">>

\* (and (< 1 2) (< 2 1) (define z 1))
LineAndDefine ==
    <<"(", "and", "(", "<", "1", "2", ")", "(", "<", "2", "1", ")", "(",
      "define", "z", "1", ")", ")">>

\* (or (< 2 1) (< 1 2) (define z 1))
LineOrDefine ==
    <<"(", "or", "(", "<", "2", "1", ")", "(", "<", "1", "2", ")", "(",
      "define", "z", "1", ")", ")">>

\* (and (< 1 2) (define true (< 0 1)))
LineAndAll ==
    <<"(", "and", "(", "<", "1", "2", ")", "(", "define", "true", "(", "<",
      "0", "1", ")", ")", ")">>

ProgShort ==
    {LineAndFalse, LineOrTrue, LineDefFalse, LineDefTrue, LineAndDefine, LineOrDefine, LineAndAll}

\* if: the branch not taken
\* (if (< 1 2) (define a 1) (define b 2))
LineIfTrue ==
    <<"(", "if", "(", "<", "1", "2", ")", "(", "define", "a", "1", ")", "(",
      "define", "b", "2", ")", ")">>

\* (if (< 2 1) (define a 1) (define b 2))
LineIfFalse ==
    <<"(", "if", "(", "<", "2", "1", ")", "(", "define", "a", "1", ")", "(",
      "define", "b", "2", ")", ")">>

\* (if 1 (define a 1) (define b 2))
LineIfNumber ==
    <<"(", "if", "1", "(", "define", "a", "1", ")", "(", "define", "b", "2",
      ")", ")">>

\* (if (< 1 2) 1 undefined-symbol)
LineIfTrueUnbound ==
    <<"(", "if", "(", "<", "1", "2", ")", "1", "undefined-symbol", ")">>

\* (if (< 2 1) undefined-symbol 2)
LineIfFalseUnbound ==
    <<"(", "if", "(", "<", "2", "1", ")", "undefined-symbol", "2", ")">>

\* (if (< 1 2) 1)
LineIfTwo ==
    <<"(", "if", "(", "<", "1", "2", ")", "1", ")">>

\* (if (define c (< 1 2)) c 0)
LineIfDefineCond ==
    <<"(", "if", "(", "define", "c", "(", "<", "1", "2", ")", ")", "c", "0",
      ")">>

ProgIf ==
    {LineIfTrue, LineIfFalse, LineIfNumber, LineIfTrueUnbound, LineIfFalseUnbound, LineIfTwo, LineIfDefineCond}

\* comparison builtins called with too few or too many arguments
\* (< 1)
LineLt1 ==
    <<"(", "<", "1", ")">>

\* (< 1 2 3)
LineLt3 ==
    <<"(", "<", "1", "2", "3", ")">>

\* (<=)
LineLe0 ==
    <<"(", "<=", ")">>

\* (> 1)
LineGt1 ==
    <<"(", ">", "1", ")">>

\* (>= 1 2 3)
LineGe3 ==
    <<"(", ">=", "1", "2", "3", ")">>

\* (= 1)
LineEq1 ==
    <<"(", "=", "1", ")">>

\* (!= 1)
LineNe1 ==
    <<"(", "!=", "1", ")">>

ProgCompare ==
    {LineLt1, LineLt3, LineLe0, LineGt1, LineGe3, LineEq1, LineNe1}

\* * called with too few arguments, and builtins called as they should be
\* (* 2)
LineMul1 ==
    <<"(", "*", "2", ")">>

\* (*)
LineMul0 ==
    <<"(", "*", ")">>

\* (* 2 3)
LineMul2 ==
    <<"(", "*", "2", "3", ")">>

\* (< 1 2)
LineLt2 ==
    <<"(", "<", "1", "2", ")">>

\* (define lt <)
LineDefLt ==
    <<"(", "define", "lt", "<", ")">>

\* (lt 1)
LineLtAlias ==
    <<"(", "lt", "1", ")">>

ProgMul ==
    {LineMul1, LineMul0, LineMul2, LineLt2, LineDefLt, LineLtAlias}

\* closures called with the wrong number of arguments
\* (define (add a b) (+ a b))
LineDefAdd ==
    <<"(", "define", "(", "add", "a", "b", ")", "(", "+", "a", "b", ")", ")">>

\* (add 1)
LineAdd1 ==
    <<"(", "add", "1", ")">>

\* (add 1 2)
LineAdd2 ==
    <<"(", "add", "1", "2", ")">>

\* (add 1 2 3)
LineAdd3 ==
    <<"(", "add", "1", "2", "3", ")">>

\* (add (define q 1))
LineAddDefine ==
    <<"(", "add", "(", "define", "q", "1", ")", ")">>

\* ((lambda () (define w 1)) 5)
LineLambda0 ==
    <<"(", "(", "lambda", "(", ")", "(", "define", "w", "1", ")", ")", "5",
      ")">>

\* ((lambda (x) (define w x)))
LineLambda1 ==
    <<"(", "(", "lambda", "(", "x", ")", "(", "define", "w", "x", ")", ")",
      ")">>

ProgCall ==
    {LineDefAdd, LineAdd1, LineAdd2, LineAdd3, LineAddDefine, LineLambda0, LineLambda1}

\* cond with and without an else clause
\* (cond ((< 2 1) 1) ((< 3 1) 2))
LineCondNone ==
    <<"(", "cond", "(", "(", "<", "2", "1", ")", "1", ")", "(", "(", "<",
      "3", "1", ")", "2", ")", ")">>

\* (cond ((< 2 1) 1) (else 2))
LineCondElse ==
    <<"(", "cond", "(", "(", "<", "2", "1", ")", "1", ")", "(", "else", "2",
      ")", ")">>

\* (cond ((< 1 2) 1) (else 2))
LineCondFirst ==
    <<"(", "cond", "(", "(", "<", "1", "2", ")", "1", ")", "(", "else", "2",
      ")", ")">>

\* (cond (else 1) ((< 1 2) 2))
LineCondElseFirst ==
    <<"(", "cond", "(", "else", "1", ")", "(", "(", "<", "1", "2", ")", "2",
      ")", ")">>

\* (cond ((< 2 1) 1) ((< 3 1) 2) (else (define c 3)))
LineCondElseDefine ==
    <<"(", "cond", "(", "(", "<", "2", "1", ")", "1", ")", "(", "(", "<",
      "3", "1", ")", "2", ")", "(", "else", "(", "define", "c", "3", ")",
      ")", ")">>

\* (cond (1 1) (else 2))
LineCondNumber ==
    <<"(", "cond", "(", "1", "1", ")", "(", "else", "2", ")", ")">>

\* (cond (else 1))
LineCondOne ==
    <<"(", "cond", "(", "else", "1", ")", ")">>

ProgCond ==
    {LineCondNone, LineCondElse, LineCondFirst, LineCondElseFirst, LineCondElseDefine, LineCondNumber, LineCondOne}

\* the arithmetic builtins called with 0, 1 and 2 arguments
\* (-)
LineMinus0 ==
    <<"(", "-", ")">>

\* (/)
LineSlash0 ==
    <<"(", "/", ")">>

\* (+)
LinePlus0 ==
    <<"(", "+", ")">>

\* (- 1)
LineMinus1 ==
    <<"(", "-", "1", ")">>

\* (/ 2)
LineSlash1 ==
    <<"(", "/", "2", ")">>

\* (- 5 2)
LineMinus2 ==
    <<"(", "-", "5", "2", ")">>

\* (/ 6 3)
LineSlash2 ==
    <<"(", "/", "6", "3", ")">>

ProgZeroArgs ==
    {LineMinus0, LineSlash0, LinePlus0, LineMinus1, LineSlash1, LineMinus2, LineSlash2}

\* define of a symbol: new names, overwriting, failing, nested, a builtin's name
\* (define x 1)
LineSetX1 ==
    <<"(", "define", "x", "1", ")">>

\* (define x 2)
LineSetX2 ==
    <<"(", "define", "x", "2", ")">>

\* (define y x)
LineSetYX ==
    <<"(", "define", "y", "x", ")">>

\* (define x z)
LineSetXUnbound ==
    <<"(", "define", "x", "z", ")">>

\* (define x (+ (define y 5) 1))
LineSetXNested ==
    <<"(", "define", "x", "(", "+", "(", "define", "y", "5", ")", "1", ")",
      ")">>

\* (define + 1)
LineSetPlus ==
    <<"(", "define", "+", "1", ")">>

\* (define x (+ (define x 3) z))
LineSetXSelf ==
    <<"(", "define", "x", "(", "+", "(", "define", "x", "3", ")", "z", ")",
      ")">>

ProgDefine ==
    {LineSetX1, LineSetX2, LineSetYX, LineSetXUnbound, LineSetXNested, LineSetPlus, LineSetXSelf}

\* cond with a trailing element that is no 2-element list
\* (cond ((< 1 2) 1) 5)
LineCondTrueThenAtom ==
    <<"(", "cond", "(", "(", "<", "1", "2", ")", "1", ")", "5", ")">>

\* (cond (else 1) (2))
LineCondElseThenShort ==
    <<"(", "cond", "(", "else", "1", ")", "(", "2", ")", ")">>

\* (cond 5 (else 1))
LineCondAtomFirst ==
    <<"(", "cond", "5", "(", "else", "1", ")", ")">>

\* (cond ((< 2 1) 1) (1 2 3))
LineCondFalseThenLong ==
    <<"(", "cond", "(", "(", "<", "2", "1", ")", "1", ")", "(", "1", "2",
      "3", ")", ")">>

\* (cond ((< 1 2) 1) (1 2 3))
LineCondTrueThenLong ==
    <<"(", "cond", "(", "(", "<", "1", "2", ")", "1", ")", "(", "1", "2",
      "3", ")", ")">>

\* (cond ((< 2 1) 1) 5 (else 2))
LineCondFalseThenAtom ==
    <<"(", "cond", "(", "(", "<", "2", "1", ")", "1", ")", "5", "(", "else",
      "2", ")", ")">>

ProgClauses ==
    {LineCondTrueThenAtom, LineCondElseThenShort, LineCondAtomFirst, LineCondFalseThenLong, LineCondTrueThenLong, LineCondFalseThenAtom}

\* calls of one closure that define a local name
\* (define (f x) (if (= x 0) (define loc 1) loc))
LineDefLoc ==
    <<"(", "define", "(", "f", "x", ")", "(", "if", "(", "=", "x", "0", ")",
      "(", "define", "loc", "1", ")", "loc", ")", ")">>

\* (f 0)
LineLoc0 ==
    <<"(", "f", "0", ")">>

\* (f 1)
LineLoc1 ==
    <<"(", "f", "1", ")">>

\* (define (h n) (if (= n 0) m (+ (define m n) (h (- n 1)))))
LineDefNest ==
    <<"(", "define", "(", "h", "n", ")", "(", "if", "(", "=", "n", "0", ")",
      "m", "(", "+", "(", "define", "m", "n", ")", "(", "h", "(", "-", "n",
      "1", ")", ")", ")", ")", ")">>

\* (h 1)
LineNest1 ==
    <<"(", "h", "1", ")">>

\* (define (k x) (if (= x 0) x (+ (k (- x 1)) x)))
LineDefShadow ==
    <<"(", "define", "(", "k", "x", ")", "(", "if", "(", "=", "x", "0", ")",
      "x", "(", "+", "(", "k", "(", "-", "x", "1", ")", ")", "x", ")", ")",
      ")">>

\* (k 2)
LineShadow2 ==
    <<"(", "k", "2", ")">>

ProgActivation ==
    {LineDefLoc, LineLoc0, LineLoc1, LineDefNest, LineNest1, LineDefShadow, LineShadow2}

Programs ==
    <<ProgScoping, ProgAdder, ProgFact, ProgLink, ProgShort, ProgIf,
      ProgCompare, ProgMul, ProgCall, ProgCond, ProgZeroArgs, ProgDefine,
      ProgClauses, ProgActivation>>

\* the expression main evaluates for a line
Read(line) == parse(line).expr

(***************************************************************************)
(* main.rs: the read-eval-print loop.  env is main's `env`; hist is the    *)
(* lines read so far; result and log are the result of the last line and   *)
(* the calls of eval it made.  A panic ends the process.                   *)
(***************************************************************************)
Init ==
    /\ env = new
    /\ heap = <<>>
    /\ result = None
    /\ log = <<>>
    /\ hist = <<>>
    /\ prog \in 1..Len(Programs)
    /\ child = None

\* one turn of the loop: parse(&mut tokens), eval(&expr, &mut env)
Step(line) ==
    /\ Len(hist) < MaxForms
    /\ result.t # "panic"
    /\ hist' = Append(hist, line)
    /\ IF Read(line).t = "panic"
       THEN /\ result' = Read(line)
            /\ log' = <<>>
            /\ UNCHANGED <<env, heap>>
       ELSE LET r == eval(Read(line), St(env, heap, <<>>))
            IN  /\ result' = r.res
                /\ env' = r.env
                /\ heap' = r.heap
                /\ log' = r.log
    /\ UNCHANGED <<prog, child>>

Next == \E line \in Programs[prog] : Step(line)

Spec == Init /\ [][Next]_vars

(***************************************************************************)
(* env.rs: a client of Env that holds an environment (env) and a child of  *)
(* it made by new_child (child), and defines and looks up names in both.   *)
(***************************************************************************)
EnvNames == {"x", "y"}

EnvValues == {Number(F(1)), Number(F(2))}

InitEnv ==
    /\ env = new
    /\ heap = <<>>
    /\ result = None
    /\ log = <<>>
    /\ hist = <<>>
    /\ prog = 0
    /\ child = None

\* env.define(name, value)
DefineParent(name, value) ==
    /\ Len(hist) < MaxEnvOps
    /\ env' = define(env, name, value)
    /\ hist' = Append(hist, <<"define", name>>)
    /\ UNCHANGED <<heap, result, log, prog, child>>

\* let child = env.new_child()
NewChild ==
    /\ Len(hist) < MaxEnvOps
    /\ child' = new_child(env, heap).child
    /\ heap' = new_child(env, heap).heap
    /\ hist' = Append(hist, <<"new_child">>)
    /\ UNCHANGED <<env, result, log, prog>>

\* child.define(name, value)
DefineChild(name, value) ==
    /\ Len(hist) < MaxEnvOps
    /\ child # None
    /\ child' = define(child, name, value)
    /\ hist' = Append(hist, <<"child.define", name>>)
    /\ UNCHANGED <<env, heap, result, log, prog>>

\* child.get(name)
GetChild(name) ==
    /\ Len(hist) < MaxEnvOps
    /\ child # None
    /\ result' = get(child, name, heap)
    /\ hist' = Append(hist, <<"child.get", name>>)
    /\ UNCHANGED <<env, heap, log, prog, child>>

NextEnv ==
    \/ \E name \in EnvNames, value \in EnvValues : DefineParent(name, value)
    \/ NewChild
    \/ \E name \in EnvNames, value \in EnvValues : DefineChild(name, value)
    \/ \E name \in EnvNames : GetChild(name)

SpecEnv == InitEnv /\ [][NextEnv]_vars

(***************************************************************************)
(* The properties.                                                         *)
(***************************************************************************)
Keywords == {"define", "lambda", "and", "or", "not", "if", "cond"}

\* the expression of the line read last
Last == Read(hist[Len(hist)])

\* expr is evaluated as an application (eval.rs:233)
IsApplication(expr) ==
    /\ expr.t = "list"
    /\ expr.l # <<>>
    /\ \A kw \in Keywords : ~IsForm(expr, kw)

\* the step reads a line whose expression is expr
Reads(expr) == hist' # hist /\ expr = Read(hist'[Len(hist')])

\* the state an evaluation of expr starts in
Start(expr) == St(env, heap, <<expr>>)

\* the closures bound in a frame
ClosuresOf(e) == {e.vars[n] : n \in {m \in DOMAIN e.vars : e.vars[m].t = "function"}}

\* all closures bound in main's environment or in a captured environment
Closures == ClosuresOf(env) \cup UNION {ClosuresOf(heap[a]) : a \in 1..Len(heap)}

InSeq(x, q) == \E i \in 1..Len(q) : q[i] = x

-----------------------------------------------------------------------------
\* C1, as the spec states its example: after
\* (define (f x) (define y 1) (+ x y)) and (f 5), the call yields 6.
C1_SpecExample ==
    hist = <<LineDefFBody2, LineF5>> => result = Number(F(6))

\* C1, the example with a body of one expression: after
\* (define (f x) (+ x (define y 1))), (f 5) yields 6 and leaves y unbound
\* at top level, and a top-level y keeps its value.
C1_Example ==
    /\ hist = <<LineDefF, LineF5>> =>
          result = Number(F(6)) /\ get(env, "y", heap) = None
    /\ hist = <<LineDefF, LineF5, LineY>> => result = UnboundSymbol("y")
    /\ hist = <<LineDefY, LineDefF, LineF5, LineY>> => result = Number(F(10))

\* C1, every call: a line that applies a closure leaves main's environment
\* as the evaluation of the operator and the operands left it; the body,
\* and a define in it, adds and changes no binding.
C1_CallStep ==
    \A expr \in {Read(hist'[Len(hist')])} :
        (Reads(expr) /\ IsApplication(expr)) =>
            LET a == EvalSeq(expr.l, <<>>, Start(expr))
            IN  (a.res = None /\ a.vals[1].t = "function") => env' = a.env

\* C1 (amended): scoping isolation.  A define executed in a closure's body
\* adds or changes no binding of the environment of the call; after
\* (define (f x) (+ x (define y 1))) and (f 5), which yields 6, y is
\* unbound at top level.
C1_ScopingIsolation == [](C1_Example) /\ [][C1_CallStep]_vars

\* C1 witness: (f 5) has run its body, define included, and returned 6
C1_Witness ==
    /\ hist = <<LineDefF, LineF5>>
    /\ result = Number(F(6))
    /\ InSeq(List(<<Symbol("define"), Symbol("y"), NumberE(F(1))>>), log)
    /\ "y" \notin DOMAIN env.vars

-----------------------------------------------------------------------------
\* add5 was defined by (define add5 (make-adder 5)) at line j, with
\* make-adder defined before
Add5Defined(j) ==
    /\ hist[j] = LineDefAdd5
    /\ \E i \in 1..(j - 1) : hist[i] = LineDefMakeAdder

\* C2: closure capture.  After (define (make-adder n) (lambda (x) (+ x n)))
\* and (define add5 (make-adder 5)), every later (add5 k) yields k + 5,
\* whatever other lines (calls of make-adder, a top-level n) come between.
C2_ClosureCapture ==
    \A j \in 1..(Len(hist) - 1) :
        Add5Defined(j) =>
            /\ hist[Len(hist)] = LineAdd5Of10 => result = Number(F(15))
            /\ hist[Len(hist)] = LineAdd5Of2 => result = Number(F(7))

\* C2 witness: add5 is called after make-adder was called again
C2_Witness ==
    /\ hist = <<LineDefMakeAdder, LineDefAdd5, LineDefAdd3, LineAdd5Of10>>
    /\ result = Number(F(15))

-----------------------------------------------------------------------------
\* C3, every named closure: in the environment it captured, its name is
\* bound to the closure itself, so the name resolves to it in every call
\* of which the name is no parameter
SelfBound ==
    \A c \in Closures :
        (c.name # <<>> /\ ~InSeq(c.name[1], c.params)) =>
            get(BindParams(heap[c.env], c.params, c.params), c.name[1], heap) = c

\* g is the factorial: the last (define g fact) is line j, after the
\* factorial was defined at line i and not redefined in between
GIsFact(j) ==
    /\ hist[j] = LineDefG
    /\ \A m \in (j + 1)..Len(hist) : hist[m] # LineDefG
    /\ \E i \in 1..(j - 1) :
          /\ hist[i] = LineDefFact
          /\ \A m \in (i + 1)..(j - 1) : hist[m] # LineRedefFact

\* C3: self-recursion.  In the body of a function defined by
\* (define (fname p...) body) fname resolves to the function itself, in
\* recursive calls too ((fact 5) yields 120), also after fname is rebound
\* in the defining environment.
C3_SelfRecursion ==
    /\ SelfBound
    /\ hist = <<LineDefFact, LineFact5>> => result = Number(F(120))
    /\ \A j \in 1..(Len(hist) - 1) :
          (GIsFact(j) /\ hist[Len(hist)] = LineG5) => result = Number(F(120))

\* C3 witness: the factorial is called under its second name after fact
\* was rebound
C3_Witness ==
    /\ hist = <<LineDefFact, LineDefG, LineRedefFact, LineG5>>
    /\ result = Number(F(120))
    /\ get(env, "fact", heap) # get(env, "g", heap)

-----------------------------------------------------------------------------
\* C4: new_child returns a frame with no local bindings whose parent is a
\* shared reference to the current frame: a lookup through the child of a
\* name the child does not bind gives what the parent holds now, also for
\* a binding the parent got after the child was made.
C4_ChildSharesParent ==
    child # None =>
        /\ hist[Len(hist)] = <<"new_child">> => DOMAIN child.vars = {}
        /\ child.parent # 0
        /\ \A n \in EnvNames :
              n \notin DOMAIN child.vars => get(child, n, heap) = get(env, n, heap)

-----------------------------------------------------------------------------
\* C5: a closure captures its defining environment by link.  A name
\* defined or overwritten at top level after a top-level closure was
\* created is what the closure's body sees: its captured environment
\* resolves every top-level name as main's environment does, and (f)
\* yields 1 after (define (f) (g)) and (define (g) 1).
C5_CaptureByLink ==
    Programs[prog] = ProgLink =>
        /\ \A c \in ClosuresOf(env) : \A n \in DOMAIN env.vars :
              get(heap[c.env], n, heap) = get(env, n, heap)
        /\ hist = <<LineDefCaller, LineDefCallee, LineCallF>> =>
              result = Number(F(1))

-----------------------------------------------------------------------------
\* C6: short-circuit evaluation, with the examples of the claim:
\* (and false undefined-symbol) yields false and (or true
\* undefined-symbol) yields true, without failing.
C6_ShortCircuit ==
    /\ hist = <<LineAndFalse>> => result = Bool(FALSE)
    /\ hist = <<LineOrTrue>> => result = Bool(TRUE)

\* the operands of `and` or `or` up to the k-th evaluate to Bools, the
\* k-th to `stop` and those before it to its negation
DecidedAt(a, k, stop) ==
    /\ a.res = None
    /\ a.vals[k] = Bool(stop)
    /\ \A i \in 1..(k - 1) : a.vals[i] = Bool(~stop)

\* C6, the part of it that holds of eval: a line that is an `and` whose
\* k-th operand is the first to evaluate to false yields false and leaves
\* the environment, the heap and the log as the evaluation of the first k
\* operands left them (no later operand is evaluated); `or` likewise with
\* true.
C6_OperandsStep ==
    \A expr \in {Read(hist'[Len(hist')])} :
        \A kw \in {"and", "or"} :
            (Reads(expr) /\ IsForm(expr, kw) /\ Len(expr.l) >= 3) =>
                \A k \in 1..(Len(expr.l) - 1) :
                    LET a == EvalSeq(SubSeq(expr.l, 2, k + 1), <<>>, Start(expr))
                    IN  DecidedAt(a, k, kw = "or") =>
                            /\ result' = Bool(kw = "or")
                            /\ env' = a.env
                            /\ heap' = a.heap
                            /\ log' = a.log

\* C6, the part that holds, with `false` and `true` bound by the session
C6_OperandsSkipped ==
    /\ [](hist = <<LineDefFalse, LineAndFalse>> => result = Bool(FALSE))
    /\ [](hist = <<LineDefTrue, LineOrTrue>> => result = Bool(TRUE))
    /\ [](hist = <<LineAndDefine>> =>
             result = Bool(FALSE) /\ get(env, "z", heap) = None)
    /\ [][C6_OperandsStep]_vars

-----------------------------------------------------------------------------
\* what a step leaves: the result and the state of the evaluation
Post == [res |-> result', env |-> env', heap |-> heap', log |-> log']

\* C7, on the lines of the program: the branch not taken leaves no binding
\* and no error
C7_Example ==
    /\ hist = <<LineIfTrue>> =>
          /\ result = Number(F(1))
          /\ get(env, "a", heap) = Number(F(1))
          /\ get(env, "b", heap) = None
    /\ hist = <<LineIfFalse>> =>
          /\ result = Number(F(2))
          /\ get(env, "a", heap) = None
          /\ get(env, "b", heap) = Number(F(2))
    /\ hist = <<LineIfTrueUnbound>> => result = Number(F(1))
    /\ hist = <<LineIfFalseUnbound>> => result = Number(F(2))
    /\ hist = <<LineIfNumber>> =>
          /\ result.t = "err" /\ result.kind = "InvalidSyntax"
          /\ get(env, "a", heap) = None
          /\ get(env, "b", heap) = None

\* C7, every line that is an `if` with 3 trailing elements: the line does
\* what the condition followed by the one branch does (result, bindings,
\* heap and the calls of eval), and with a condition that is no Bool what
\* the condition alone does, failing with InvalidSyntax
C7_IfStep ==
    \A expr \in {Read(hist'[Len(hist')])} :
        (Reads(expr) /\ IsForm(expr, "if") /\ Len(expr.l) = 4) =>
            LET c == eval(expr.l[2], Start(expr))
            IN  /\ c.res = Bool(TRUE) => Post = eval(expr.l[3], c)
                /\ c.res = Bool(FALSE) => Post = eval(expr.l[4], c)
                /\ (~Abrupt(c.res) /\ c.res.t # "bool") =>
                      Post = Ret(c, InvalidSyntax(expr, "if condition must be a boolean"))

\* C7: `if` with 3 trailing elements evaluates the condition once and then
\* exactly one branch, the second element for true and the third for
\* false; the other branch is never evaluated; a condition that is no Bool
\* fails with InvalidSyntax and evaluates neither.
C7_IfOneBranch == [](C7_Example) /\ [][C7_IfStep]_vars

\* C7 witness: the then-branch ran its define and the else-branch did not
C7_Witness ==
    /\ hist = <<LineIfTrue>>
    /\ result = Number(F(1))
    /\ "a" \in DOMAIN env.vars
    /\ "b" \notin DOMAIN env.vars

-----------------------------------------------------------------------------
CompareNames == {"<", "<=", ">", ">=", "=", "!="}

\* expr applies the builtin `name` to numerals
AppliesTo(expr, name) ==
    /\ expr.t = "list"
    /\ expr.l # <<>>
    /\ expr.l[1] = Symbol(name)
    /\ get(env, name, heap) = BuiltinFunction(name)
    /\ \A i \in 2..Len(expr.l) : expr.l[i].t = "num"

\* C8: a comparison builtin called with n arguments, n other than 2, fails
\* with ArityMismatch{expected: 2, found: n}, and `*` called with fewer
\* than 2 arguments fails with an arity error.
C8_BuiltinArity ==
    (hist # <<>> /\ Programs[prog] \in {ProgCompare, ProgMul}) =>
        /\ \A name \in CompareNames :
              (AppliesTo(Last, name) /\ Len(Last.l) - 1 # 2) =>
                  result = ArityMismatch(2, Len(Last.l) - 1, Last)
        /\ (AppliesTo(Last, "*") /\ Len(Last.l) - 1 < 2) =>
              result.t = "err" /\ result.kind = "ArityMismatch"

-----------------------------------------------------------------------------
\* C9, the example: a closure of 2 parameters called with 1 argument
C9_Example ==
    hist = <<LineDefAdd, LineAdd1>> =>
        result = ArityMismatch(2, 1, Read(LineAdd1))

\* C9, every line that applies a closure to a number of arguments other
\* than its number of parameters: the line fails with ArityMismatch of the
\* two numbers and leaves the environment, the heap and the calls of eval
\* as the evaluation of the operator and the operands left them
C9_ArityStep ==
    \A expr \in {Read(hist'[Len(hist')])} :
        (Reads(expr) /\ IsApplication(expr)) =>
            LET a == EvalSeq(expr.l, <<>>, Start(expr))
            IN  (/\ a.res = None
                 /\ a.vals[1].t = "function"
                 /\ Len(a.vals[1].params) # Len(expr.l) - 1) =>
                    Post = Ret(a, ArityMismatch(Len(a.vals[1].params),
                                                Len(expr.l) - 1, expr))

\* C9: a closure called with a number of arguments different from its
\* number of parameters fails with ArityMismatch{expected: parameters,
\* found: arguments}; the body is not evaluated and the call changes no
\* binding of the caller's or the closure's environment.
C9_ClosureArity == [](C9_Example) /\ [][C9_ArityStep]_vars

\* C9 witness: add, of 2 parameters, was called with 1 argument
C9_Witness ==
    /\ hist = <<LineDefAdd, LineAdd1>>
    /\ result.t = "err"
    /\ result.kind = "ArityMismatch"
    /\ result.expected = 2
    /\ result.found = 1

-----------------------------------------------------------------------------
IsClause(pair) == pair.t = "list" /\ Len(pair.l) = 2

IsElse(pair) == IsClause(pair) /\ pair.l[1] = Symbol("else")

NoMatch(expr) == InvalidSyntax(expr, "cond requires at least one else clause")

\* the state after the tests of the clauses, all of them false; None when
\* a test does not evaluate to false
RECURSIVE TestsFalse(_, _)
TestsFalse(pairs, s) ==
    IF pairs = <<>> THEN St(s.env, s.heap, s.log)
    ELSE LET c == eval(pairs[1].l[1], s)
         IN  IF c.res = Bool(FALSE) THEN TestsFalse(Tail(pairs), c) ELSE None

\* C10, every line that is a `cond` of at least 2 clauses: with no else
\* clause and all tests false it fails with InvalidSyntax (no matching
\* clause); with a first else clause at k and the tests before it false
\* it does what these tests followed by the result of clause k do; with an
\* else clause it never fails for the reason that no clause matched
C10_CondStep ==
    \A expr \in {Read(hist'[Len(hist')])} :
        (Reads(expr) /\ IsForm(expr, "cond")) =>
            LET cl == Tail(expr.l)
                n  == Len(cl)
            IN  /\ (\E k \in 1..n : IsElse(cl[k])) => result' # NoMatch(expr)
                /\ (n >= 2 /\ \A i \in 1..n : IsClause(cl[i])) =>
                      /\ ((\A i \in 1..n : ~IsElse(cl[i]))
                            /\ TestsFalse(cl, Start(expr)) # None) =>
                              Post = Ret(TestsFalse(cl, Start(expr)), NoMatch(expr))
                      /\ \A k \in 1..n :
                            LET t == TestsFalse(SubSeq(cl, 1, k - 1), Start(expr))
                            IN  (/\ IsElse(cl[k])
                                 /\ \A i \in 1..(k - 1) : ~IsElse(cl[i])
                                 /\ t # None) =>
                                    Post = eval(cl[k].l[2], t)

\* C10, on the lines of the program
C10_Example ==
    /\ hist = <<LineCondNone>> => result = NoMatch(Read(LineCondNone))
    /\ hist = <<LineCondElse>> => result = Number(F(2))
    /\ hist = <<LineCondElseDefine>> =>
          result = Number(F(3)) /\ get(env, "c", heap) = Number(F(3))

\* C10: cond exhaustiveness.  A `cond` with no else clause whose tests are
\* all false fails with InvalidSyntax; a `cond` with an else clause never
\* fails for that reason: the result of the else clause is evaluated and
\* returned when no earlier test is true.
C10_CondExhaustive == [](C10_Example) /\ [][C10_CondStep]_vars

\* C10 witness: the else clause was reached after a false test
C10_Witness ==
    /\ hist = <<LineCondElse>>
    /\ result = Number(F(2))

-----------------------------------------------------------------------------
\* the variants of EvalError (eval.rs:276-293)
Taxonomy ==
    {"UnboundSymbol", "InvalidSyntax", "TypeError", "ArityMismatch", "OtherError"}

IsValue(v) == v.t \in {"number", "bool", "nil", "builtin", "function"}

\* C11: every evaluation returns a Value or an error of the closed
\* taxonomy; no line makes the evaluator abort the process, also not a
\* builtin called with zero arguments such as (-) and (/).
C11_NoAbort ==
    hist # <<>> =>
        \/ IsValue(result)
        \/ result.t = "err" /\ result.kind \in Taxonomy

-----------------------------------------------------------------------------
\* expr is (define name e) with a Symbol name
IsDefineSymbol(expr) ==
    /\ IsForm(expr, "define")
    /\ Len(expr.l) = 3
    /\ expr.l[2].t = "sym"

\* the value name is bound to in the frame e itself, None when it is not
Binding(e, name) == IF name \in DOMAIN e.vars THEN e.vars[name] ELSE None

\* C12 as the claim has it, for the first line of a session: (define name
\* expr) returns the value of expr and binds name to it in the current
\* frame, leaving the other bindings as the evaluation of expr left them;
\* if the evaluation of expr fails, name is neither bound nor rebound.
C12_FailedDefineKeepsName ==
    (Len(hist) = 1 /\ IsDefineSymbol(Last)) =>
        LET name == Last.l[2].s
            c == eval(Last.l[3], St(new, <<>>, <<Last>>))
        IN  /\ ~Abrupt(c.res) =>
                  /\ result = c.res
                  /\ get(env, name, heap) = c.res
                  /\ \A n \in DOMAIN c.env.vars \ {name} :
                        Binding(env, n) = c.env.vars[n]
            /\ Abrupt(c.res) => Binding(env, name) = Binding(new, name)

\* C12, every line (define name expr): a line whose expr evaluates to a
\* value returns it, binds name to it in main's frame and leaves every
\* other binding, the parent link and the heap as the evaluation of expr
\* left them, in particular every binding the evaluation of expr did not
\* change as it was; a line whose expr fails leaves everything as the
\* failed evaluation of expr left it
C12_DefineStep ==
    \A expr \in {Read(hist'[Len(hist')])} :
        (Reads(expr) /\ IsDefineSymbol(expr)) =>
            LET name == expr.l[2].s
                c == eval(expr.l[3], Start(expr))
            IN  /\ ~Abrupt(c.res) =>
                      /\ result' = c.res
                      /\ get(env', name, heap') = c.res
                      /\ DOMAIN env'.vars = DOMAIN c.env.vars \cup {name}
                      /\ \A n \in DOMAIN c.env.vars \ {name} :
                            env'.vars[n] = c.env.vars[n]
                      /\ \A n \in DOMAIN env.vars \ {name} :
                            c.env.vars[n] = env.vars[n] => env'.vars[n] = env.vars[n]
                      /\ env'.parent = env.parent
                      /\ heap' = c.heap
                      /\ \A i \in 1..Len(heap) : heap'[i] = heap[i]
                /\ Abrupt(c.res) => Post = c

\* C12, on the lines of the program
C12_Example ==
    /\ hist = <<LineSetX1, LineSetX2>> => get(env, "x", heap) = Number(F(2))
    /\ hist = <<LineSetX1, LineSetXUnbound>> =>
          /\ result = UnboundSymbol("z")
          /\ get(env, "x", heap) = Number(F(1))
    /\ hist = <<LineSetXUnbound>> => get(env, "x", heap) = None
    /\ hist = <<LineSetXNested>> =>
          /\ result = Number(F(6))
          /\ get(env, "x", heap) = Number(F(6))
          /\ get(env, "y", heap) = Number(F(5))
    /\ hist = <<LineSetXSelf>> =>
          /\ result = UnboundSymbol("z")
          /\ get(env, "x", heap) = Number(F(3))

\* C12: (define name expr) with a Symbol name evaluates expr in the
\* current environment, binds name to the value in the current frame only
\* and returns the value; every other binding that evaluating expr did not
\* define is unchanged and no parent frame is modified.  If evaluating expr
\* fails, the define itself binds nothing: the environment is as the
\* failed evaluation of expr left it.
C12_DefineSymbol == [](C12_Example) /\ [][C12_DefineStep]_vars

\* C12 witness: x was bound by one define and kept by a failing one
C12_Witness ==
    /\ hist = <<LineSetX1, LineSetXUnbound>>
    /\ result.t = "err"
    /\ get(env, "x", heap) = Number(F(1))

-----------------------------------------------------------------------------
(***************************************************************************)
(* env.rs: the comparison builtins on one pair of numerals.  A session     *)
(* whose lines are the six comparisons of the pair; prog numbers the pair. *)
(***************************************************************************)
CmpNumerals == <<"1", "2", "NaN", "inf">>

CmpLeft(p) == CmpNumerals[((p - 1) \div Len(CmpNumerals)) + 1]

CmpRight(p) == CmpNumerals[((p - 1) % Len(CmpNumerals)) + 1]

CompareLine(name, p) == <<"(", name, CmpLeft(p), CmpRight(p), ")">>

InitCmp ==
    /\ env = new
    /\ heap = <<>>
    /\ result = None
    /\ log = <<>>
    /\ hist = <<>>
    /\ prog \in 1..(Len(CmpNumerals) * Len(CmpNumerals))
    /\ child = None

NextCmp == \E name \in CompareNames : Step(CompareLine(name, prog))

SpecCmp == InitCmp /\ [][NextCmp]_vars

\* what the builtin `name` returns on the pair of the session
Compared(name) == eval(Read(CompareLine(name, prog)), St(env, heap, <<>>)).res

\* the builtins among <, =, > that return true on the pair
Holding == {name \in {"<", "=", ">"} : Compared(name) = Bool(TRUE)}

HasNaN(p) == "NaN" \in {CmpLeft(p), CmpRight(p)}

\* every comparison of the pair returns a Bool, the last line's result is
\* that of its builtin, != is the negation of =, <= is < or =, >= is > or =
Derived ==
    /\ \A name \in CompareNames : Compared(name).t = "bool"
    /\ hist # <<>> => result = Compared(hist[Len(hist)][2])
    /\ Compared("!=") = Bool(~Compared("=").b)
    /\ Compared("<=") = Bool(Compared("<").b \/ Compared("=").b)
    /\ Compared(">=") = Bool(Compared(">").b \/ Compared("=").b)

\* C13 as the claim has it: for all numeric pairs exactly one of <, =, >
\* returns true; != is the negation of =; <= is true exactly when < or =
\* is, and >= exactly when > or = is.
C13_Trichotomy == hist # <<>> => (Cardinality(Holding) = 1 /\ Derived)

\* C13: for all pairs of numbers neither of which is NaN exactly one of
\* <, =, > returns true; on a pair with a NaN none of them does.  On all
\* numeric pairs != returns the negation of =, <= is true exactly when <
\* or = is, and >= exactly when > or = is.
C13_TrichotomyButNaN ==
    hist # <<>> =>
        /\ ~HasNaN(prog) => Cardinality(Holding) = 1
        /\ HasNaN(prog) => Holding = {}
        /\ Derived

\* C13 witness: = was applied to NaN and NaN and returned false, after <
C13_Witness ==
    /\ CmpLeft(prog) = "NaN"
    /\ CmpRight(prog) = "NaN"
    /\ hist = <<CompareLine("<", prog), CompareLine("=", prog)>>
    /\ result = Bool(FALSE)

-----------------------------------------------------------------------------
\* C14: after any sequence of top-level forms each builtin name still
\* resolves in the root environment to its native procedure.
C14_BuiltinsKept ==
    \A name \in BuiltinNames : get(env, name, heap) = BuiltinFunction(name)

-----------------------------------------------------------------------------
\* C15: a cond form in which a trailing element is not a List, or is a
\* List of length other than 2, fails with InvalidSyntax, also when an
\* earlier clause's test is true or is else.
C15_ClausesChecked ==
    (/\ hist # <<>>
     /\ IsForm(Last, "cond")
     /\ \E i \in 2..Len(Last.l) : ~IsClause(Last.l[i])) =>
        result.t = "err" /\ result.kind = "InvalidSyntax"

-----------------------------------------------------------------------------
\* C16, on the lines of the program: a name defined by one activation is
\* unbound in a later one and in a nested one, and the parameter of an
\* activation keeps its value over a nested activation
C16_Example ==
    /\ hist = <<LineDefLoc, LineLoc0>> =>
          /\ result = Number(F(1))
          /\ get(env, "loc", heap) = None
          /\ DOMAIN heap[1].vars = BuiltinNames \cup {"f"}
    /\ hist = <<LineDefLoc, LineLoc0, LineLoc1>> => result = UnboundSymbol("loc")
    /\ hist = <<LineDefNest, LineNest1>> => result = UnboundSymbol("m")
    /\ hist = <<LineDefShadow, LineShadow2>> => result = Number(F(3))

\* C16, every line: the captured environments that exist before the line
\* are the same after it, whatever calls the line made
C16_CallStep ==
    /\ Len(heap') >= Len(heap)
    /\ \A i \in 1..Len(heap) : heap'[i] = heap[i]

\* C16: call activations of a closure are independent.  Each call binds
\* its parameters and the body's defines in a frame of its own: a call
\* never changes the closure's captured environment, and a binding made
\* by one activation is not visible in another, neither a later nor a
\* nested one.
C16_Activations == [](C16_Example) /\ [][C16_CallStep]_vars

\* C16 witness: loc, defined by the call (f 0), is unbound in the call (f 1)
C16_Witness ==
    /\ hist = <<LineDefLoc, LineLoc0, LineLoc1>>
    /\ result = UnboundSymbol("loc")

-----------------------------------------------------------------------------
\* the frames a frame holds a reference to: its parent and the captured
\* environments of the closures it binds
Edges(h, e) ==
    (IF e.parent # 0 THEN {e.parent} ELSE {})
        \cup {e.vars[n].env : n \in {m \in DOMAIN e.vars : e.vars[m].t = "function"}}

\* the frames reached from the frames S in at most k steps
RECURSIVE ReachedIn(_, _, _)
ReachedIn(h, S, k) ==
    IF k = 0 THEN S
    ELSE ReachedIn(h, S \cup UNION {Edges(h, h[i]) : i \in S}, k - 1)

\* C17: in every reachable state the graph from a frame to its parent,
\* from a frame to the closures it binds and from a closure to its
\* captured environment has no cycle: no frame is reached from itself.
C17_NoCycle ==
    \A i \in 1..Len(heap) :
        i \notin ReachedIn(heap, Edges(heap, heap[i]), Len(heap))

====
